---------------------------- MODULE Spec2Model ----------------------------
(***************************************************************************)
(* A model of generate_flow.py: the script that asks an agent for a GitHub *)
(* Actions workflow, sanitizes the answer, validates it as YAML (falling   *)
(* back to FALLBACK_WORKFLOW), writes .github/workflows/deploy.yml and     *)
(* commits and pushes when the working tree is dirty.                      *)
(*                                                                         *)
(* Only lines 1-141 of the file execute: line 141 is exit(), and the two   *)
(* older copies of the script below it are dead code.                      *)
(*                                                                         *)
(* Text is a sequence of one-character strings.  Chars("jobs:") is the     *)
(* sequence <<"j","o","b","s",":">>.  SANY's lexer does not accept U+0060  *)
(* inside a string literal, so that one character is the element BT.       *)
(***************************************************************************)
EXTENDS Integers, Sequences, FiniteSets, TLC

VARIABLES
    pc,             \* position of the script: the statement to run next
    runs,           \* how many times the script has been started
    api_key,        \* os.getenv("OPENAI_API_KEY") (line 14); NoKey is None
    git_dir,        \* TRUE iff REPO_PATH/.git exists
    head,           \* what HEAD points at: a branch name or "detached"
    heads,          \* repo.heads: the branches that exist
    tip,            \* tip[b]: the tree of the commit branch b points at
    index,          \* the staging area (a tree)
    work,           \* the files of REPO_PATH (a tree)
    remotes,        \* repo.remotes: the names of the configured remotes
    remote_main,    \* the tree of origin's main ("none" before a push)
    response,       \* workflow_task.messages[-1].content (line 86)
    workflow_text,  \* main()'s local workflow_text
    clean_lines,    \* main()'s local clean_lines
    parsed_yaml,    \* main()'s local parsed_yaml, or what safe_load raised
    effects         \* the side effects of the current run, in order

vars == <<pc, runs, api_key, git_dir, head, heads, tip, index,
          work, remotes, remote_main, response, workflow_text, clean_lines,
          parsed_yaml, effects>>

(***************************************************************************)
(* Bounds of the model.                                                    *)
(***************************************************************************)
\* how many times the script is started on the same directory
MaxRuns == 2
\* how many lines an answer of the validation specification has at most
MaxLines == 3
\* how many pieces an answer of the sanitizer specification has at most
MaxPieces == 3

(***************************************************************************)
(* Characters and Python's str / re primitives.                            *)
(***************************************************************************)
Chars(s) == [i \in 1..Len(s) |-> SubSeq(s, i, i)]

BT == "BACKTICK"

FENCE == <<BT, BT, BT>>

Lower ==
    {"a","b","c","d","e","f","g","h","i","j","k","l","m",
     "n","o","p","q","r","s","t","u","v","w","x","y","z"}

Upper ==
    {"A","B","C","D","E","F","G","H","I","J","K","L","M",
     "N","O","P","Q","R","S","T","U","V","W","X","Y","Z"}

Digit == {"0","1","2","3","4","5","6","7","8","9"}

\* [a-zA-Z] of the pattern on line 89
IsLetter(c) == c \in Lower \cup Upper

\* The characters below have no escape in a string literal; each definition
\* holds the character itself.
\* U+000B LINE TABULATION
VT == ""
\* U+001C INFORMATION SEPARATOR FOUR
FS == ""
\* U+001D INFORMATION SEPARATOR THREE
GS == ""
\* U+001E INFORMATION SEPARATOR TWO
RS == ""
\* U+001F INFORMATION SEPARATOR ONE
US == ""
\* U+0085 NEXT LINE
NEL == ""
\* U+00A0 NO-BREAK SPACE
NBSP == " "
\* U+1680 OGHAM SPACE MARK: the lexer accepts this one in a literal, so it
\* is whitespace under both spellings, the literal and "U+1680"
OGHAM == " "

\* The lexer accepts none of the characters below in a string literal; like
\* BT, each of these elements stands for the one character it names.
\* U+2028 LINE SEPARATOR
LS == "U+2028"
\* U+2029 PARAGRAPH SEPARATOR
PS == "U+2029"

\* the other characters above U+00FF for which str.isspace() is true
WideSpace ==
    {OGHAM, "U+1680", "U+2000", "U+2001", "U+2002", "U+2003", "U+2004",
     "U+2005", "U+2006", "U+2007", "U+2008", "U+2009", "U+200A", "U+202F",
     "U+205F", "U+3000"}

\* the characters of U+0080..U+00FF that \w matches in a str pattern
Latin1Word ==
    {"ª","²","³","µ","¹","º","¼","½","¾","À","Á","Â","Ã",
     "Ä","Å","Æ","Ç","È","É","Ê","Ë","Ì","Í","Î","Ï","Ð",
     "Ñ","Ò","Ó","Ô","Õ","Ö","Ø","Ù","Ú","Û","Ü","Ý","Þ",
     "ß","à","á","â","ã","ä","å","æ","ç","è","é","ê","ë",
     "ì","í","î","ï","ð","ñ","ò","ó","ô","õ","ö","ø","ù",
     "ú","û","ü","ý","þ","ÿ"}

\* A character above U+00FF is the element "U+" followed by its code point
\* in four to six hexadecimal digits ("U+0101", "U+1F600"), as LS and PS.
HexDigits == <<"0", "1", "2", "3", "4", "5", "6", "7", "8", "9",
               "A", "B", "C", "D", "E", "F">>

IsHex(h) ==
    \A i \in 1..Len(h) : \E j \in 1..16 : HexDigits[j] = SubSeq(h, i, i)

RECURSIVE HexValue(_)
HexValue(h) ==
    IF Len(h) = 0 THEN 0
    ELSE LET d == SubSeq(h, Len(h), Len(h)) IN
             (CHOOSE j \in 1..16 : HexDigits[j] = d) - 1
                 + 16 * HexValue(SubSeq(h, 1, Len(h) - 1))

\* whether the element c names a character by its code point
IsNamed(c) ==
    /\ Len(c) \in 6..8
    /\ SubSeq(c, 1, 2) = "U+"
    /\ IsHex(SubSeq(c, 3, Len(c)))

\* the code point of a named character
CodePoint(c) == HexValue(SubSeq(c, 3, Len(c)))

\* the characters of U+0000..U+00FF that \w matches in the pattern on line
\* 103: a str pattern, so Unicode alphanumerics and the underscore
WordChars == Lower \cup Upper \cup Digit \cup {"_"} \cup Latin1Word

\* the code points above U+00FF that \w matches, as closed intervals in
\* ascending order (Unicode 14.0.0, the database of the interpreter)
WideWordRanges ==
    <<<<256, 705>>, <<710, 721>>, <<736, 740>>, <<748, 748>>, <<750, 750>>,
      <<880, 884>>, <<886, 887>>, <<890, 893>>, <<895, 895>>, <<902, 902>>,
      <<904, 906>>, <<908, 908>>, <<910, 929>>, <<931, 1013>>,
      <<1015, 1153>>, <<1162, 1327>>, <<1329, 1366>>, <<1369, 1369>>,
      <<1376, 1416>>, <<1488, 1514>>, <<1519, 1522>>, <<1568, 1610>>,
      <<1632, 1641>>, <<1646, 1647>>, <<1649, 1747>>, <<1749, 1749>>,
      <<1765, 1766>>, <<1774, 1788>>, <<1791, 1791>>, <<1808, 1808>>,
      <<1810, 1839>>, <<1869, 1957>>, <<1969, 1969>>, <<1984, 2026>>,
      <<2036, 2037>>, <<2042, 2042>>, <<2048, 2069>>, <<2074, 2074>>,
      <<2084, 2084>>, <<2088, 2088>>, <<2112, 2136>>, <<2144, 2154>>,
      <<2160, 2183>>, <<2185, 2190>>, <<2208, 2249>>, <<2308, 2361>>,
      <<2365, 2365>>, <<2384, 2384>>, <<2392, 2401>>, <<2406, 2415>>,
      <<2417, 2432>>, <<2437, 2444>>, <<2447, 2448>>, <<2451, 2472>>,
      <<2474, 2480>>, <<2482, 2482>>, <<2486, 2489>>, <<2493, 2493>>,
      <<2510, 2510>>, <<2524, 2525>>, <<2527, 2529>>, <<2534, 2545>>,
      <<2548, 2553>>, <<2556, 2556>>, <<2565, 2570>>, <<2575, 2576>>,
      <<2579, 2600>>, <<2602, 2608>>, <<2610, 2611>>, <<2613, 2614>>,
      <<2616, 2617>>, <<2649, 2652>>, <<2654, 2654>>, <<2662, 2671>>,
      <<2674, 2676>>, <<2693, 2701>>, <<2703, 2705>>, <<2707, 2728>>,
      <<2730, 2736>>, <<2738, 2739>>, <<2741, 2745>>, <<2749, 2749>>,
      <<2768, 2768>>, <<2784, 2785>>, <<2790, 2799>>, <<2809, 2809>>,
      <<2821, 2828>>, <<2831, 2832>>, <<2835, 2856>>, <<2858, 2864>>,
      <<2866, 2867>>, <<2869, 2873>>, <<2877, 2877>>, <<2908, 2909>>,
      <<2911, 2913>>, <<2918, 2927>>, <<2929, 2935>>, <<2947, 2947>>,
      <<2949, 2954>>, <<2958, 2960>>, <<2962, 2965>>, <<2969, 2970>>,
      <<2972, 2972>>, <<2974, 2975>>, <<2979, 2980>>, <<2984, 2986>>,
      <<2990, 3001>>, <<3024, 3024>>, <<3046, 3058>>, <<3077, 3084>>,
      <<3086, 3088>>, <<3090, 3112>>, <<3114, 3129>>, <<3133, 3133>>,
      <<3160, 3162>>, <<3165, 3165>>, <<3168, 3169>>, <<3174, 3183>>,
      <<3192, 3198>>, <<3200, 3200>>, <<3205, 3212>>, <<3214, 3216>>,
      <<3218, 3240>>, <<3242, 3251>>, <<3253, 3257>>, <<3261, 3261>>,
      <<3293, 3294>>, <<3296, 3297>>, <<3302, 3311>>, <<3313, 3314>>,
      <<3332, 3340>>, <<3342, 3344>>, <<3346, 3386>>, <<3389, 3389>>,
      <<3406, 3406>>, <<3412, 3414>>, <<3416, 3425>>, <<3430, 3448>>,
      <<3450, 3455>>, <<3461, 3478>>, <<3482, 3505>>, <<3507, 3515>>,
      <<3517, 3517>>, <<3520, 3526>>, <<3558, 3567>>, <<3585, 3632>>,
      <<3634, 3635>>, <<3648, 3654>>, <<3664, 3673>>, <<3713, 3714>>,
      <<3716, 3716>>, <<3718, 3722>>, <<3724, 3747>>, <<3749, 3749>>,
      <<3751, 3760>>, <<3762, 3763>>, <<3773, 3773>>, <<3776, 3780>>,
      <<3782, 3782>>, <<3792, 3801>>, <<3804, 3807>>, <<3840, 3840>>,
      <<3872, 3891>>, <<3904, 3911>>, <<3913, 3948>>, <<3976, 3980>>,
      <<4096, 4138>>, <<4159, 4169>>, <<4176, 4181>>, <<4186, 4189>>,
      <<4193, 4193>>, <<4197, 4198>>, <<4206, 4208>>, <<4213, 4225>>,
      <<4238, 4238>>, <<4240, 4249>>, <<4256, 4293>>, <<4295, 4295>>,
      <<4301, 4301>>, <<4304, 4346>>, <<4348, 4680>>, <<4682, 4685>>,
      <<4688, 4694>>, <<4696, 4696>>, <<4698, 4701>>, <<4704, 4744>>,
      <<4746, 4749>>, <<4752, 4784>>, <<4786, 4789>>, <<4792, 4798>>,
      <<4800, 4800>>, <<4802, 4805>>, <<4808, 4822>>, <<4824, 4880>>,
      <<4882, 4885>>, <<4888, 4954>>, <<4969, 4988>>, <<4992, 5007>>,
      <<5024, 5109>>, <<5112, 5117>>, <<5121, 5740>>, <<5743, 5759>>,
      <<5761, 5786>>, <<5792, 5866>>, <<5870, 5880>>, <<5888, 5905>>,
      <<5919, 5937>>, <<5952, 5969>>, <<5984, 5996>>, <<5998, 6000>>,
      <<6016, 6067>>, <<6103, 6103>>, <<6108, 6108>>, <<6112, 6121>>,
      <<6128, 6137>>, <<6160, 6169>>, <<6176, 6264>>, <<6272, 6276>>,
      <<6279, 6312>>, <<6314, 6314>>, <<6320, 6389>>, <<6400, 6430>>,
      <<6470, 6509>>, <<6512, 6516>>, <<6528, 6571>>, <<6576, 6601>>,
      <<6608, 6618>>, <<6656, 6678>>, <<6688, 6740>>, <<6784, 6793>>,
      <<6800, 6809>>, <<6823, 6823>>, <<6917, 6963>>, <<6981, 6988>>,
      <<6992, 7001>>, <<7043, 7072>>, <<7086, 7141>>, <<7168, 7203>>,
      <<7232, 7241>>, <<7245, 7293>>, <<7296, 7304>>, <<7312, 7354>>,
      <<7357, 7359>>, <<7401, 7404>>, <<7406, 7411>>, <<7413, 7414>>,
      <<7418, 7418>>, <<7424, 7615>>, <<7680, 7957>>, <<7960, 7965>>,
      <<7968, 8005>>, <<8008, 8013>>, <<8016, 8023>>, <<8025, 8025>>,
      <<8027, 8027>>, <<8029, 8029>>, <<8031, 8061>>, <<8064, 8116>>,
      <<8118, 8124>>, <<8126, 8126>>, <<8130, 8132>>, <<8134, 8140>>,
      <<8144, 8147>>, <<8150, 8155>>, <<8160, 8172>>, <<8178, 8180>>,
      <<8182, 8188>>, <<8304, 8305>>, <<8308, 8313>>, <<8319, 8329>>,
      <<8336, 8348>>, <<8450, 8450>>, <<8455, 8455>>, <<8458, 8467>>,
      <<8469, 8469>>, <<8473, 8477>>, <<8484, 8484>>, <<8486, 8486>>,
      <<8488, 8488>>, <<8490, 8493>>, <<8495, 8505>>, <<8508, 8511>>,
      <<8517, 8521>>, <<8526, 8526>>, <<8528, 8585>>, <<9312, 9371>>,
      <<9450, 9471>>, <<10102, 10131>>, <<11264, 11492>>, <<11499, 11502>>,
      <<11506, 11507>>, <<11517, 11517>>, <<11520, 11557>>,
      <<11559, 11559>>, <<11565, 11565>>, <<11568, 11623>>,
      <<11631, 11631>>, <<11648, 11670>>, <<11680, 11686>>,
      <<11688, 11694>>, <<11696, 11702>>, <<11704, 11710>>,
      <<11712, 11718>>, <<11720, 11726>>, <<11728, 11734>>,
      <<11736, 11742>>, <<11823, 11823>>, <<12293, 12295>>,
      <<12321, 12329>>, <<12337, 12341>>, <<12344, 12348>>,
      <<12353, 12438>>, <<12445, 12447>>, <<12449, 12538>>,
      <<12540, 12543>>, <<12549, 12591>>, <<12593, 12686>>,
      <<12690, 12693>>, <<12704, 12735>>, <<12784, 12799>>,
      <<12832, 12841>>, <<12872, 12879>>, <<12881, 12895>>,
      <<12928, 12937>>, <<12977, 12991>>, <<13312, 19903>>,
      <<19968, 42124>>, <<42192, 42237>>, <<42240, 42508>>,
      <<42512, 42539>>, <<42560, 42606>>, <<42623, 42653>>,
      <<42656, 42735>>, <<42775, 42783>>, <<42786, 42888>>,
      <<42891, 42954>>, <<42960, 42961>>, <<42963, 42963>>,
      <<42965, 42969>>, <<42994, 43009>>, <<43011, 43013>>,
      <<43015, 43018>>, <<43020, 43042>>, <<43056, 43061>>,
      <<43072, 43123>>, <<43138, 43187>>, <<43216, 43225>>,
      <<43250, 43255>>, <<43259, 43259>>, <<43261, 43262>>,
      <<43264, 43301>>, <<43312, 43334>>, <<43360, 43388>>,
      <<43396, 43442>>, <<43471, 43481>>, <<43488, 43492>>,
      <<43494, 43518>>, <<43520, 43560>>, <<43584, 43586>>,
      <<43588, 43595>>, <<43600, 43609>>, <<43616, 43638>>,
      <<43642, 43642>>, <<43646, 43695>>, <<43697, 43697>>,
      <<43701, 43702>>, <<43705, 43709>>, <<43712, 43712>>,
      <<43714, 43714>>, <<43739, 43741>>, <<43744, 43754>>,
      <<43762, 43764>>, <<43777, 43782>>, <<43785, 43790>>,
      <<43793, 43798>>, <<43808, 43814>>, <<43816, 43822>>,
      <<43824, 43866>>, <<43868, 43881>>, <<43888, 44002>>,
      <<44016, 44025>>, <<44032, 55203>>, <<55216, 55238>>,
      <<55243, 55291>>, <<63744, 64109>>, <<64112, 64217>>,
      <<64256, 64262>>, <<64275, 64279>>, <<64285, 64285>>,
      <<64287, 64296>>, <<64298, 64310>>, <<64312, 64316>>,
      <<64318, 64318>>, <<64320, 64321>>, <<64323, 64324>>,
      <<64326, 64433>>, <<64467, 64829>>, <<64848, 64911>>,
      <<64914, 64967>>, <<65008, 65019>>, <<65136, 65140>>,
      <<65142, 65276>>, <<65296, 65305>>, <<65313, 65338>>,
      <<65345, 65370>>, <<65382, 65470>>, <<65474, 65479>>,
      <<65482, 65487>>, <<65490, 65495>>, <<65498, 65500>>,
      <<65536, 65547>>, <<65549, 65574>>, <<65576, 65594>>,
      <<65596, 65597>>, <<65599, 65613>>, <<65616, 65629>>,
      <<65664, 65786>>, <<65799, 65843>>, <<65856, 65912>>,
      <<65930, 65931>>, <<66176, 66204>>, <<66208, 66256>>,
      <<66273, 66299>>, <<66304, 66339>>, <<66349, 66378>>,
      <<66384, 66421>>, <<66432, 66461>>, <<66464, 66499>>,
      <<66504, 66511>>, <<66513, 66517>>, <<66560, 66717>>,
      <<66720, 66729>>, <<66736, 66771>>, <<66776, 66811>>,
      <<66816, 66855>>, <<66864, 66915>>, <<66928, 66938>>,
      <<66940, 66954>>, <<66956, 66962>>, <<66964, 66965>>,
      <<66967, 66977>>, <<66979, 66993>>, <<66995, 67001>>,
      <<67003, 67004>>, <<67072, 67382>>, <<67392, 67413>>,
      <<67424, 67431>>, <<67456, 67461>>, <<67463, 67504>>,
      <<67506, 67514>>, <<67584, 67589>>, <<67592, 67592>>,
      <<67594, 67637>>, <<67639, 67640>>, <<67644, 67644>>,
      <<67647, 67669>>, <<67672, 67702>>, <<67705, 67742>>,
      <<67751, 67759>>, <<67808, 67826>>, <<67828, 67829>>,
      <<67835, 67867>>, <<67872, 67897>>, <<67968, 68023>>,
      <<68028, 68047>>, <<68050, 68096>>, <<68112, 68115>>,
      <<68117, 68119>>, <<68121, 68149>>, <<68160, 68168>>,
      <<68192, 68222>>, <<68224, 68255>>, <<68288, 68295>>,
      <<68297, 68324>>, <<68331, 68335>>, <<68352, 68405>>,
      <<68416, 68437>>, <<68440, 68466>>, <<68472, 68497>>,
      <<68521, 68527>>, <<68608, 68680>>, <<68736, 68786>>,
      <<68800, 68850>>, <<68858, 68899>>, <<68912, 68921>>,
      <<69216, 69246>>, <<69248, 69289>>, <<69296, 69297>>,
      <<69376, 69415>>, <<69424, 69445>>, <<69457, 69460>>,
      <<69488, 69505>>, <<69552, 69579>>, <<69600, 69622>>,
      <<69635, 69687>>, <<69714, 69743>>, <<69745, 69746>>,
      <<69749, 69749>>, <<69763, 69807>>, <<69840, 69864>>,
      <<69872, 69881>>, <<69891, 69926>>, <<69942, 69951>>,
      <<69956, 69956>>, <<69959, 69959>>, <<69968, 70002>>,
      <<70006, 70006>>, <<70019, 70066>>, <<70081, 70084>>,
      <<70096, 70106>>, <<70108, 70108>>, <<70113, 70132>>,
      <<70144, 70161>>, <<70163, 70187>>, <<70272, 70278>>,
      <<70280, 70280>>, <<70282, 70285>>, <<70287, 70301>>,
      <<70303, 70312>>, <<70320, 70366>>, <<70384, 70393>>,
      <<70405, 70412>>, <<70415, 70416>>, <<70419, 70440>>,
      <<70442, 70448>>, <<70450, 70451>>, <<70453, 70457>>,
      <<70461, 70461>>, <<70480, 70480>>, <<70493, 70497>>,
      <<70656, 70708>>, <<70727, 70730>>, <<70736, 70745>>,
      <<70751, 70753>>, <<70784, 70831>>, <<70852, 70853>>,
      <<70855, 70855>>, <<70864, 70873>>, <<71040, 71086>>,
      <<71128, 71131>>, <<71168, 71215>>, <<71236, 71236>>,
      <<71248, 71257>>, <<71296, 71338>>, <<71352, 71352>>,
      <<71360, 71369>>, <<71424, 71450>>, <<71472, 71483>>,
      <<71488, 71494>>, <<71680, 71723>>, <<71840, 71922>>,
      <<71935, 71942>>, <<71945, 71945>>, <<71948, 71955>>,
      <<71957, 71958>>, <<71960, 71983>>, <<71999, 71999>>,
      <<72001, 72001>>, <<72016, 72025>>, <<72096, 72103>>,
      <<72106, 72144>>, <<72161, 72161>>, <<72163, 72163>>,
      <<72192, 72192>>, <<72203, 72242>>, <<72250, 72250>>,
      <<72272, 72272>>, <<72284, 72329>>, <<72349, 72349>>,
      <<72368, 72440>>, <<72704, 72712>>, <<72714, 72750>>,
      <<72768, 72768>>, <<72784, 72812>>, <<72818, 72847>>,
      <<72960, 72966>>, <<72968, 72969>>, <<72971, 73008>>,
      <<73030, 73030>>, <<73040, 73049>>, <<73056, 73061>>,
      <<73063, 73064>>, <<73066, 73097>>, <<73112, 73112>>,
      <<73120, 73129>>, <<73440, 73458>>, <<73648, 73648>>,
      <<73664, 73684>>, <<73728, 74649>>, <<74752, 74862>>,
      <<74880, 75075>>, <<77712, 77808>>, <<77824, 78894>>,
      <<82944, 83526>>, <<92160, 92728>>, <<92736, 92766>>,
      <<92768, 92777>>, <<92784, 92862>>, <<92864, 92873>>,
      <<92880, 92909>>, <<92928, 92975>>, <<92992, 92995>>,
      <<93008, 93017>>, <<93019, 93025>>, <<93027, 93047>>,
      <<93053, 93071>>, <<93760, 93846>>, <<93952, 94026>>,
      <<94032, 94032>>, <<94099, 94111>>, <<94176, 94177>>,
      <<94179, 94179>>, <<94208, 100343>>, <<100352, 101589>>,
      <<101632, 101640>>, <<110576, 110579>>, <<110581, 110587>>,
      <<110589, 110590>>, <<110592, 110882>>, <<110928, 110930>>,
      <<110948, 110951>>, <<110960, 111355>>, <<113664, 113770>>,
      <<113776, 113788>>, <<113792, 113800>>, <<113808, 113817>>,
      <<119520, 119539>>, <<119648, 119672>>, <<119808, 119892>>,
      <<119894, 119964>>, <<119966, 119967>>, <<119970, 119970>>,
      <<119973, 119974>>, <<119977, 119980>>, <<119982, 119993>>,
      <<119995, 119995>>, <<119997, 120003>>, <<120005, 120069>>,
      <<120071, 120074>>, <<120077, 120084>>, <<120086, 120092>>,
      <<120094, 120121>>, <<120123, 120126>>, <<120128, 120132>>,
      <<120134, 120134>>, <<120138, 120144>>, <<120146, 120485>>,
      <<120488, 120512>>, <<120514, 120538>>, <<120540, 120570>>,
      <<120572, 120596>>, <<120598, 120628>>, <<120630, 120654>>,
      <<120656, 120686>>, <<120688, 120712>>, <<120714, 120744>>,
      <<120746, 120770>>, <<120772, 120779>>, <<120782, 120831>>,
      <<122624, 122654>>, <<123136, 123180>>, <<123191, 123197>>,
      <<123200, 123209>>, <<123214, 123214>>, <<123536, 123565>>,
      <<123584, 123627>>, <<123632, 123641>>, <<124896, 124902>>,
      <<124904, 124907>>, <<124909, 124910>>, <<124912, 124926>>,
      <<124928, 125124>>, <<125127, 125135>>, <<125184, 125251>>,
      <<125259, 125259>>, <<125264, 125273>>, <<126065, 126123>>,
      <<126125, 126127>>, <<126129, 126132>>, <<126209, 126253>>,
      <<126255, 126269>>, <<126464, 126467>>, <<126469, 126495>>,
      <<126497, 126498>>, <<126500, 126500>>, <<126503, 126503>>,
      <<126505, 126514>>, <<126516, 126519>>, <<126521, 126521>>,
      <<126523, 126523>>, <<126530, 126530>>, <<126535, 126535>>,
      <<126537, 126537>>, <<126539, 126539>>, <<126541, 126543>>,
      <<126545, 126546>>, <<126548, 126548>>, <<126551, 126551>>,
      <<126553, 126553>>, <<126555, 126555>>, <<126557, 126557>>,
      <<126559, 126559>>, <<126561, 126562>>, <<126564, 126564>>,
      <<126567, 126570>>, <<126572, 126578>>, <<126580, 126583>>,
      <<126585, 126588>>, <<126590, 126590>>, <<126592, 126601>>,
      <<126603, 126619>>, <<126625, 126627>>, <<126629, 126633>>,
      <<126635, 126651>>, <<127232, 127244>>, <<130032, 130041>>,
      <<131072, 173791>>, <<173824, 177976>>, <<177984, 178205>>,
      <<178208, 183969>>, <<183984, 191456>>, <<194560, 195101>>,
      <<196608, 201546>>>>

\* \w of the pattern on line 103
IsWord(c) ==
    \/ c \in WordChars
    \/ /\ IsNamed(c)
       /\ LET n == CodePoint(c) IN
              \E i \in 1..Len(WideWordRanges) :
                  WideWordRanges[i][1] <= n /\ n <= WideWordRanges[i][2]

\* the characters str.strip() and str.rstrip() remove: every character for
\* which str.isspace() is true
SpaceChars ==
    {" ", "\t", "\n", "\r", "\f", VT, FS, GS, RS, US, NEL, NBSP, LS, PS}
        \cup WideSpace

IsSpace(c) == c \in SpaceChars

\* the line boundaries of str.splitlines()
LineBreakChars == {"\n", "\r", "\f", VT, FS, GS, RS, NEL, LS, PS}

IsLineBreak(c) == c \in LineBreakChars

Drop(s, n) == SubSeq(s, n + 1, Len(s))

Min(S) == CHOOSE x \in S : \A y \in S : x <= y

\* str.startswith(p)
StartsWith(s, p) == Len(s) >= Len(p) /\ SubSeq(s, 1, Len(p)) = p

\* str.find(p) + 1: the first position where p occurs in s, 0 when it does not
Find(s, p) ==
    LET at == {i \in 1..(Len(s) - Len(p) + 1) : SubSeq(s, i, i + Len(p) - 1) = p}
    IN  IF at = {} THEN 0 ELSE Min(at)

\* p in s, for strings
Contains(s, p) == Find(s, p) # 0

\* str.replace(old, new), old non-empty: leftmost, non-overlapping occurrences
RECURSIVE Replace(_, _, _)
Replace(s, old, new) ==
    LET i == Find(s, old) IN
        IF i = 0 THEN s
        ELSE SubSeq(s, 1, i - 1) \o new \o Replace(Drop(s, i - 1 + Len(old)), old, new)

\* the number of leading characters of s that str.strip() removes
LeadingSpaces(s) == Min({k \in 0..Len(s) : k = Len(s) \/ ~IsSpace(s[k + 1])})

\* the number of trailing characters of s that str.strip() removes
TrailingSpaces(s) == Min({k \in 0..Len(s) : k = Len(s) \/ ~IsSpace(s[Len(s) - k])})

\* str.lstrip()
LStrip(s) == Drop(s, LeadingSpaces(s))

\* str.rstrip()
RStrip(s) == SubSeq(s, 1, Len(s) - TrailingSpaces(s))

\* str.strip()
Strip(s) == RStrip(LStrip(s))

\* the length of the greedy [a-zA-Z]* at the start of s
LetterPrefix(s) == Min({k \in 0..Len(s) : k = Len(s) \/ ~IsLetter(s[k + 1])})

\* re.sub(r"```[a-zA-Z]*", "", s): scan left to right, delete every match
RECURSIVE ReSubFence(_)
ReSubFence(s) ==
    LET i == Find(s, FENCE) IN
        IF i = 0 THEN s
        ELSE LET rest == Drop(s, i + 2) IN
                 SubSeq(s, 1, i - 1) \o ReSubFence(Drop(rest, LetterPrefix(rest)))

\* the position of the first line boundary of s, 0 when it has none
FirstBreak(s) ==
    LET at == {i \in 1..Len(s) : IsLineBreak(s[i])}
    IN  IF at = {} THEN 0 ELSE Min(at)

\* str.splitlines(): "\r\n" is one boundary, a final boundary adds no line
RECURSIVE SplitLines(_)
SplitLines(s) ==
    IF s = <<>> THEN <<>>
    ELSE LET i == FirstBreak(s) IN
             IF i = 0 THEN <<s>>
             ELSE LET n == IF s[i] = "\r" /\ Len(s) > i /\ s[i + 1] = "\n"
                           THEN i + 1 ELSE i
                  IN  <<SubSeq(s, 1, i - 1)>> \o SplitLines(Drop(s, n))

\* "\n".join(lines)
RECURSIVE JoinLF(_)
JoinLF(lines) ==
    IF lines = <<>> THEN <<>>
    ELSE IF Len(lines) = 1 THEN lines[1]
         ELSE lines[1] \o <<"\n">> \o JoinLF(Tail(lines))

\* the length of the greedy \w* at the start of s
WordPrefix(s) == Min({k \in 0..Len(s) : k = Len(s) \/ ~IsWord(s[k + 1])})

\* re.match(r"^(\w+):", s)
MatchKey(s) ==
    LET k == WordPrefix(s) IN k >= 1 /\ Len(s) > k /\ s[k + 1] = ":"

\* re.match(r"^- ", s)
MatchDash(s) == StartsWith(s, <<"-", " ">>)

(***************************************************************************)
(* The sanitizer: lines 88-105 of main().                                  *)
(***************************************************************************)
\* CleanFences with count=1: only the first fence is removed
CleanFencesOnce(text) ==
    LET i == Find(text, FENCE)
        rest == Drop(text, i + 2)
    IN  Strip(IF i = 0 THEN text
              ELSE SubSeq(text, 1, i - 1) \o Drop(rest, LetterPrefix(rest)))

\* lines 89-90
CleanFences(text) == Strip(Replace(ReSubFence(text), FENCE, <<>>))

\* the literals of lines 93, 94 and 97
UploadOld == Chars("actions/upload-artifact@v3")
UploadNew == Chars("actions/upload-artifact@v4")
DownloadOld == Chars("actions/download-artifact@v3")
\* DownloadNew with the artifact name copied from line 93 and its version
\* left as it was
DownloadNewCopied == Chars("actions/upload-artifact@v3")
DownloadNew == Chars("actions/download-artifact@v4")
PagesOld == Chars("actions-gh-pages/action")
PagesNew == Chars("peaceiris/actions-gh-pages")

\* line 93
FixUpload(text) == Replace(text, UploadOld, UploadNew)
\* line 94
FixDownload(text) == Replace(text, DownloadOld, DownloadNew)
\* line 97
FixPages(text) == Replace(text, PagesOld, PagesNew)

\* lines 93-97, in the order of the code
FixActions(text) == FixPages(FixDownload(FixUpload(text)))

\* KeepLine with line[:1].isspace() for line.startswith(" ")
KeepLineAnyIndent(line) ==
    LET stripped == Strip(line) IN
        \/ stripped = <<>>
        \/ MatchKey(stripped)
        \/ MatchDash(stripped)
        \/ (line # <<>> /\ IsSpace(line[1]))

\* the condition on line 103
KeepLine(line) ==
    LET stripped == Strip(line) IN
        \/ stripped = <<>>
        \/ MatchKey(stripped)
        \/ MatchDash(stripped)
        \/ StartsWith(line, <<" ">>)

\* lines 100-104
FilterLines(text) == SelectSeq(SplitLines(text), KeepLine)

\* line 105
JoinLines(lines) == JoinLF([i \in 1..Len(lines) |-> RStrip(lines[i])])

\* lines 88-105: the sanitized candidate for an agent response
Sanitize(text) == JoinLines(FilterLines(FixActions(CleanFences(text))))

(***************************************************************************)
(* Python values, as yaml.safe_load builds them.  Every value is a record  *)
(* [t, s, items]: t is the Python type, s the characters of a str or an    *)
(* int, items the elements of a list or the (k, v) pairs of a dict.        *)
(***************************************************************************)
PyNone == [t |-> "NoneType", s |-> <<>>, items |-> <<>>]
PyStr(s) == [t |-> "str", s |-> s, items |-> <<>>]
PyInt(s) == [t |-> "int", s |-> s, items |-> <<>>]
PyBool(b) == [t |-> "bool", s |-> IF b THEN Chars("True") ELSE Chars("False"),
              items |-> <<>>]
PyList(items) == [t |-> "list", s |-> <<>>, items |-> items]
PyDict(pairs) == [t |-> "dict", s |-> <<>>, items |-> pairs]

\* bool(v)
Truthy(v) ==
    CASE v.t = "NoneType" -> FALSE
      [] v.t = "bool" -> v.s = Chars("True")
      [] v.t = "int" -> v.s # <<"0">>
      [] v.t = "str" -> v.s # <<>>
      [] OTHER -> v.items # <<>>

\* whether `x in v` is defined; on the other types it raises TypeError
Iterable(v) == v.t \in {"str", "list", "dict"}

\* `name in v` for a str name: substring of a str, element of a list, key of
\* a dict
In(name, v) ==
    CASE v.t = "str" -> Contains(v.s, name)
      [] v.t = "list" ->
            \E i \in 1..Len(v.items) : v.items[i].t = "str" /\ v.items[i].s = name
      [] v.t = "dict" ->
            \E i \in 1..Len(v.items) : v.items[i].k.t = "str" /\ v.items[i].k.s = name

\* d[name] for a dict d that has the key: the value of its last occurrence
GetItem(d, name) ==
    LET at == {i \in 1..Len(d.items) : d.items[i].k.t = "str" /\ d.items[i].k.s = name}
    IN  d.items[CHOOSE i \in at : \A j \in at : j <= i].v

(***************************************************************************)
(* yaml.safe_load on the block-style subset of YAML the model covers.      *)
(*                                                                         *)
(* A document is a sequence of lines, blank lines ignored.  A line is an   *)
(* indentation of spaces followed by one of                                *)
(*     key:                a mapping key whose value is the nested block   *)
(*     key: value          value a plain scalar, [] or {}                  *)
(*     key: 'text          a single-quoted scalar that is never closed     *)
(*     key: text: text     a second ": " inside a mapping value            *)
(*     - value             a sequence item                                 *)
(*     value               a plain scalar                                  *)
(* with key made of letters and "_", a plain scalar of letters and single  *)
(* or repeated spaces (or one digit).  A nested block is indented deeper   *)
(* than its key.  On anything else safe_load here answers "unsupported"    *)
(* and the model draws no such input.                                      *)
(***************************************************************************)
IsKeyChar(c) == c \in Lower \cup Upper \cup {"_"}

\* a plain scalar of letters and inner spaces
IsPlain(s) ==
    /\ s # <<>>
    /\ \A i \in 1..Len(s) : IsLetter(s[i]) \/ s[i] = " "
    /\ IsLetter(s[1]) /\ IsLetter(s[Len(s)])

IsScalar(s) == IsPlain(s) \/ (Len(s) = 1 /\ s[1] \in Digit)

\* the implicit resolver of YAML 1.1 on the scalars of the subset
Resolve(s) ==
    IF Len(s) = 1 /\ s[1] \in Digit THEN PyInt(s)
    ELSE IF s \in {Chars("yes"), Chars("Yes"), Chars("YES"), Chars("true"),
                   Chars("True"), Chars("TRUE"), Chars("on"), Chars("On"),
                   Chars("ON")} THEN PyBool(TRUE)
    ELSE IF s \in {Chars("no"), Chars("No"), Chars("NO"), Chars("false"),
                   Chars("False"), Chars("FALSE"), Chars("off"), Chars("Off"),
                   Chars("OFF")} THEN PyBool(FALSE)
    ELSE IF s \in {Chars("null"), Chars("Null"), Chars("NULL")} THEN PyNone
    ELSE PyStr(s)

\* an inline value: a scalar or an empty flow collection
InlineValue(v) ==
    IF v = Chars("[]") THEN PyList(<<>>)
    ELSE IF v = Chars("{}") THEN PyDict(<<>>)
    ELSE Resolve(v)

KeyLen(c) == Min({k \in 0..Len(c) : k = Len(c) \/ ~IsKeyChar(c[k + 1])})

\* one line of the document: its indentation, its shape, its key and value
ClassifyLine(line) ==
    LET ind == Min({k \in 0..Len(line) : k = Len(line) \/ line[k + 1] # " "})
        c == Drop(line, ind)
        k == KeyLen(c)
        v == Drop(c, k + 2)
        sep == Find(v, <<":", " ">>)
        L(kind, key, val) == [ind |-> ind, kind |-> kind, key |-> key, val |-> val]
    IN  IF k >= 1 /\ Len(c) = k + 1 /\ c[k + 1] = ":"
        THEN L("key", Resolve(SubSeq(c, 1, k)), PyNone)
        ELSE IF k >= 1 /\ Len(c) >= k + 3 /\ c[k + 1] = ":" /\ c[k + 2] = " "
        THEN IF IsScalar(v) \/ v = Chars("[]") \/ v = Chars("{}")
             THEN L("kv", Resolve(SubSeq(c, 1, k)), InlineValue(v))
             ELSE IF v[1] = "'" /\ \A i \in 2..Len(v) : IsLetter(v[i]) \/ v[i] = " "
             THEN L("kvquote", Resolve(SubSeq(c, 1, k)), PyNone)
             ELSE IF sep > 1 /\ IsPlain(SubSeq(v, 1, sep - 1)) /\ IsPlain(Drop(v, sep + 1))
             THEN L("kvcolon", Resolve(SubSeq(c, 1, k)), PyNone)
             ELSE L("other", PyNone, PyNone)
        ELSE IF StartsWith(c, <<"-", " ">>) /\ IsScalar(Drop(c, 2))
        THEN L("item", PyNone, Resolve(Drop(c, 2)))
        ELSE IF IsScalar(c)
        THEN L("scalar", PyNone, Resolve(c))
        ELSE L("other", PyNone, PyNone)

KeyKinds == {"key", "kv", "kvquote", "kvcolon"}

\* the first line after i that is indented less than line i
NodeEnd(ls, i) ==
    Min({j \in (i + 1)..(Len(ls) + 1) : j = Len(ls) + 1 \/ ls[j].ind < ls[i].ind})

\* the first line after e, before stop, that is not indented deeper than n
EntryEnd(ls, e, n, stop) ==
    Min({j \in (e + 1)..stop : j = stop \/ ls[j].ind <= n})

NoParse == [ok |-> FALSE, val |-> PyNone, next |-> 0]

RECURSIVE ParseNode(_, _)
RECURSIVE ParseEntries(_, _, _, _)

\* the entries of a block mapping indented by n, from line e up to stop
ParseEntries(ls, e, n, stop) ==
    IF e = stop THEN [ok |-> TRUE, val |-> <<>>, next |-> stop]
    ELSE IF ls[e].ind # n \/ ls[e].kind \notin KeyKinds THEN NoParse
    ELSE LET nx == EntryEnd(ls, e, n, stop)
             nested == ParseNode(ls, e + 1)
             value ==
                 IF nx = e + 1 THEN [ok |-> TRUE, val |-> ls[e].val, next |-> nx]
                 ELSE IF ls[e].kind = "key" /\ nested.ok /\ nested.next = nx
                 THEN nested
                 ELSE NoParse
             rest == ParseEntries(ls, nx, n, stop)
         IN  IF value.ok /\ rest.ok
             THEN [ok |-> TRUE,
                   val |-> <<[k |-> ls[e].key, v |-> value.val]>> \o rest.val,
                   next |-> stop]
             ELSE NoParse

\* the block node that starts at line i
ParseNode(ls, i) ==
    LET n == ls[i].ind
        stop == NodeEnd(ls, i)
    IN  IF ls[i].kind = "scalar"
        THEN IF stop = i + 1 THEN [ok |-> TRUE, val |-> ls[i].val, next |-> stop]
             ELSE NoParse
        ELSE IF ls[i].kind = "item"
        THEN IF \A j \in i..(stop - 1) : ls[j].ind = n /\ ls[j].kind = "item"
             THEN [ok |-> TRUE,
                   val |-> PyList([j \in 1..(stop - i) |-> ls[i + j - 1].val]),
                   next |-> stop]
             ELSE NoParse
        ELSE IF ls[i].kind \in KeyKinds
        THEN LET m == ParseEntries(ls, i, n, stop)
             IN  IF m.ok THEN [ok |-> TRUE, val |-> PyDict(m.val), next |-> stop]
                 ELSE NoParse
        ELSE NoParse

NonBlank(line) == line # <<>>

Count(s, c) == Cardinality({i \in 1..Len(s) : s[i] = c})

\* yaml.safe_load(text): [exc |-> "none", val |-> the value], or
\* [exc |-> "YAMLError"] when the scanner rejects the text
safe_load(text) ==
    LET ls == [i \in 1..Len(SelectSeq(SplitLines(text), NonBlank)) |->
                   ClassifyLine(SelectSeq(SplitLines(text), NonBlank)[i])]
        doc == ParseNode(ls, 1)
        bad == \E i \in 1..Len(ls) : ls[i].kind \in {"kvquote", "kvcolon"}
        quotes == Count(text, "'")
    IN  IF ls = <<>> THEN [exc |-> "none", val |-> PyNone]
        ELSE IF ~doc.ok \/ doc.next # Len(ls) + 1 THEN [exc |-> "unsupported", val |-> PyNone]
        ELSE IF quotes > 1 THEN [exc |-> "unsupported", val |-> PyNone]
        ELSE IF bad THEN [exc |-> "YAMLError", val |-> PyNone]
        ELSE [exc |-> "none", val |-> doc.val]


(***************************************************************************)
(* The validation step: lines 107-115 of main().                           *)
(***************************************************************************)
\* lines 55-74
FALLBACK_WORKFLOW ==
    Chars("name: Deploy Static Site\n") \o
    Chars("\n") \o
    Chars("on:\n") \o
    Chars("  push:\n") \o
    Chars("    branches:\n") \o
    Chars("      - main\n") \o
    Chars("\n") \o
    Chars("jobs:\n") \o
    Chars("  deploy:\n") \o
    Chars("    runs-on: ubuntu-latest\n") \o
    Chars("    steps:\n") \o
    Chars("      - name: Checkout code\n") \o
    Chars("        uses: actions/checkout@v3\n") \o
    Chars("\n") \o
    Chars("      - name: Deploy to GitHub Pages\n") \o
    Chars("        uses: peaceiris/actions-gh-pages@v3\n") \o
    Chars("        with:\n") \o
    Chars("          github_token: ${{ secrets.GITHUB_TOKEN }}\n") \o
    Chars("          publish_dir: ./\n")

JOBS == Chars("jobs")
DEPLOY == Chars("deploy")

\* Line110 with its last test inverted: `"deploy" in parsed_yaml["jobs"]`
Line110Inverted(parsed) ==
    IF ~Truthy(parsed) THEN "fallback"
    ELSE IF ~Iterable(parsed) THEN "raise"
    ELSE IF ~In(JOBS, parsed) THEN "fallback"
    ELSE IF parsed.t # "dict" THEN "raise"
    ELSE IF ~Iterable(GetItem(parsed, JOBS)) THEN "raise"
    ELSE IF In(DEPLOY, GetItem(parsed, JOBS)) THEN "fallback"
    ELSE "accept"

\* the condition on line 110, evaluated left to right as Python does:
\* "fallback" when it is true, "accept" when it is false, "raise" when it
\* raises TypeError: an operand of `in` that is not iterable, or
\* parsed_yaml["jobs"] on a str or a list
Line110(parsed) ==
    IF ~Truthy(parsed) THEN "fallback"
    ELSE IF ~Iterable(parsed) THEN "raise"
    ELSE IF ~In(JOBS, parsed) THEN "fallback"
    ELSE IF parsed.t # "dict" THEN "raise"
    ELSE IF ~Iterable(GetItem(parsed, JOBS)) THEN "raise"
    ELSE IF ~In(DEPLOY, GetItem(parsed, JOBS)) THEN "fallback"
    ELSE "accept"

\* Validation with the except clause of the script's older copy (lines
\* 225-227), which prints the error and raises it again
ValidationReraise(loaded) ==
    IF loaded.exc = "YAMLError" THEN "raise" ELSE Line110(loaded.val)

\* lines 108-115: what the try statement does with the loader's answer
Validation(loaded) ==
    IF loaded.exc = "YAMLError" THEN "fallback" ELSE Line110(loaded.val)

NotLoaded == [exc |-> "not loaded", val |-> PyNone]


(***************************************************************************)
(* The repository.  A tree maps each file to <<>> (absent) or <<content>>. *)
(***************************************************************************)
INDEX_FILE == "index.html"
WORKFLOW_FILE == ".github/workflows/deploy.yml"
Files == {INDEX_FILE, WORKFLOW_FILE}

\* line 26: the placeholder page
PLACEHOLDER == Chars("<!DOCTYPE html><html><body><h1>Hello from Autogen Agent!</h1></body></html>")

EmptyTree == [f \in Files |-> <<>>]
SiteTree == [EmptyTree EXCEPT ![INDEX_FILE] = <<Chars("<html>my site</html>")>>]

Refs == {"main", "dev", "master", "detached"}

\* the tree of the commit HEAD resolves to (the empty tree on an unborn branch)
HeadTree ==
    IF head = "detached" \/ head \in heads THEN tip[head] ELSE EmptyTree

\* IsDirty without untracked_files=True: files the index does not have are
\* not looked at
IsDirtyTrackedOnly ==
    index # HeadTree \/ \E f \in Files : index[f] # <<>> /\ work[f] # index[f]

\* repo.is_dirty(untracked_files=True): staged changes, unstaged changes or
\* untracked files
IsDirty == index # HeadTree \/ work # index

\* line 35
NotOnMain == head = "detached" \/ head # "main"

(***************************************************************************)
(* The script, one action per statement group.                             *)
(***************************************************************************)
Locals == <<response, workflow_text, clean_lines, parsed_yaml>>
Repo == <<git_dir, head, heads, tip, index, remotes, remote_main>>

Goto(here, there) == pc = here /\ pc' = there

Effect(e) == effects' = Append(effects, e)

\* `not api_key` on line 15: None and the empty string are falsy
NoKey == "<None>"
Falsy(key) == key \in {NoKey, ""}

\* CheckApiKey with the test moved below the creation of index.html
CheckApiKeyAfterIndex ==
    /\ pc = "start"
    /\ pc' = IF Falsy(api_key) THEN "aborted" ELSE "repo"
    /\ IF work[INDEX_FILE] = <<>>
       THEN work' = [work EXCEPT ![INDEX_FILE] = <<PLACEHOLDER>>]
            /\ Effect("write index.html")
       ELSE UNCHANGED <<work, effects>>
    /\ UNCHANGED <<runs, api_key, Repo, Locals>>

\* lines 13-16: raise ValueError unless the key is set and non-empty
CheckApiKey ==
    /\ pc = "start"
    /\ pc' = IF Falsy(api_key) THEN "aborted" ELSE "index"
    /\ UNCHANGED <<runs, api_key, work, Repo, Locals, effects>>

\* lines 24-26
EnsureIndex ==
    /\ Goto("index", "repo")
    /\ IF work[INDEX_FILE] = <<>>
       THEN work' = [work EXCEPT ![INDEX_FILE] = <<PLACEHOLDER>>]
            /\ Effect("write index.html")
       ELSE UNCHANGED <<work, effects>>
    /\ UNCHANGED <<runs, api_key, Repo, Locals>>

\* lines 29-32: git.Repo.init leaves HEAD on the unborn initial branch, whose
\* name is the user's init.defaultBranch
OpenRepo ==
    /\ Goto("repo", "branch")
    /\ IF ~git_dir
       THEN /\ git_dir' = TRUE
            /\ \E b \in {"master", "main"} : head' = b
            /\ Effect("Repo.init")
       ELSE /\ UNCHANGED <<git_dir, head>>
            /\ Effect("Repo")
    /\ UNCHANGED <<runs, api_key, work, heads, tip, index, remotes, remote_main, Locals>>

\* lines 35-39
EnsureMain ==
    /\ Goto("branch", "agent")
    /\ IF NotOnMain
       THEN IF "main" \in heads
            THEN /\ head' = "main"
                 /\ UNCHANGED <<heads, tip>>
                 /\ Effect("head.reference = main")
            ELSE /\ head' = "main"
                 /\ IF head = "detached" \/ head \in heads
                    THEN /\ heads' = heads \cup {"main"}
                         /\ tip' = [tip EXCEPT !["main"] = tip[head]]
                    ELSE UNCHANGED <<heads, tip>>
                 /\ Effect("checkout -b main")
       ELSE UNCHANGED <<head, heads, tip, effects>>
    /\ UNCHANGED <<runs, api_key, work, git_dir, index, remotes, remote_main, Locals>>

\* lines 85-86: the agent's final message is r
Receive(r) ==
    /\ Goto("agent", "fences")
    /\ response' = r
    /\ workflow_text' = r
    /\ Effect("agent.run")
    /\ UNCHANGED <<runs, api_key, work, Repo, clean_lines, parsed_yaml>>

\* lines 89-90
StripFences ==
    /\ Goto("fences", "fix")
    /\ workflow_text' = CleanFences(workflow_text)
    /\ UNCHANGED <<runs, api_key, work, Repo, response, clean_lines, parsed_yaml, effects>>

\* lines 93-97
FixVersions ==
    /\ Goto("fix", "filter")
    /\ workflow_text' = FixActions(workflow_text)
    /\ UNCHANGED <<runs, api_key, work, Repo, response, clean_lines, parsed_yaml, effects>>

\* lines 100-104
KeepValidLines ==
    /\ Goto("filter", "join")
    /\ clean_lines' = FilterLines(workflow_text)
    /\ UNCHANGED <<runs, api_key, work, Repo, response, workflow_text, parsed_yaml, effects>>

\* line 105
Rejoin ==
    /\ Goto("join", "validate")
    /\ workflow_text' = JoinLines(clean_lines)
    /\ UNCHANGED <<runs, api_key, work, Repo, response, clean_lines, parsed_yaml, effects>>

\* lines 108-115: a TypeError is not a yaml.YAMLError, so it leaves main()
\* and ends the script
Validate ==
    /\ pc = "validate"
    /\ parsed_yaml' = safe_load(workflow_text)
    /\ LET v == Validation(safe_load(workflow_text)) IN
           /\ pc' = IF v = "raise" THEN "crashed" ELSE "save"
           /\ workflow_text' = IF v = "fallback" THEN FALLBACK_WORKFLOW ELSE workflow_text
    /\ UNCHANGED <<runs, api_key, work, Repo, response, clean_lines, effects>>

\* lines 118-123
Save ==
    /\ Goto("save", "dirty")
    /\ work' = [work EXCEPT ![WORKFLOW_FILE] = <<workflow_text>>]
    /\ Effect("write deploy.yml")
    /\ UNCHANGED <<runs, api_key, Repo, Locals>>

\* CommitDecision with lines 129-134 dedented out of the if statement
CommitDecisionPushOutside ==
    /\ pc = "dirty"
    /\ pc' = IF IsDirty THEN "add" ELSE "remote"
    /\ UNCHANGED <<runs, api_key, work, Repo, Locals, effects>>

\* lines 126, 135-136
CommitDecision ==
    /\ pc = "dirty"
    /\ pc' = IF IsDirty THEN "add" ELSE "done"
    /\ UNCHANGED <<runs, api_key, work, Repo, Locals, effects>>

\* line 127: git add --all
StageAll ==
    /\ Goto("add", "commit")
    /\ index' = work
    /\ Effect("add")
    /\ UNCHANGED <<runs, api_key, work, git_dir, head, heads, tip, remotes, remote_main, Locals>>

\* line 128: a commit of the index on the current branch
Commit ==
    /\ Goto("commit", "remote")
    /\ tip' = [tip EXCEPT ![head] = index]
    /\ heads' = IF head = "detached" THEN heads ELSE heads \cup {head}
    /\ Effect("commit")
    /\ UNCHANGED <<runs, api_key, work, git_dir, head, index, remotes, remote_main, Locals>>

\* lines 129-132
EnsureRemote ==
    /\ Goto("remote", "push")
    /\ IF "origin" \notin remotes
       THEN remotes' = remotes \cup {"origin"} /\ Effect("create_remote")
       ELSE UNCHANGED <<remotes, effects>>
    /\ UNCHANGED <<runs, api_key, work, git_dir, head, heads, tip, index, remote_main, Locals>>

\* lines 133-134: the push updates origin's main, or is rejected and reported
\* only in the PushInfo flags the script ignores, or fails with GitCommandError
Push ==
    /\ pc = "push"
    /\ Effect("push")
    /\ \E outcome \in {"pushed", "rejected", "GitCommandError"} :
           /\ pc' = IF outcome = "GitCommandError" THEN "crashed" ELSE "done"
           /\ remote_main' = IF outcome = "pushed" THEN <<tip["main"]>> ELSE remote_main
    /\ UNCHANGED <<runs, api_key, work, git_dir, head, heads, tip, index, remotes, Locals>>


\* the script is started again on the same directory; the locals are new
Restart ==
    /\ pc \in {"done", "crashed", "aborted"}
    /\ runs < MaxRuns
    /\ pc' = "start"
    /\ runs' = runs + 1
    /\ response' = <<>>
    /\ workflow_text' = <<>>
    /\ clean_lines' = <<>>
    /\ parsed_yaml' = NotLoaded
    /\ effects' = <<>>
    /\ UNCHANGED <<api_key, work, Repo>>

(***************************************************************************)
(* The agent's answers.                                                    *)
(***************************************************************************)
\* every concatenation of at most n of the given pieces
Concats(pieces, n) ==
    LET RECURSIVE Cat(_)
        Cat(q) == IF q = <<>> THEN <<>> ELSE Head(q) \o Cat(Tail(q))
    IN  {Cat(q) : q \in UNION {[1..k -> pieces] : k \in 0..n}}

\* answers of the whole-script specification: a fenced workflow, a second
\* workflow, prose, and a `jobs:` key without a value
FencedWorkflow ==
    FENCE \o Chars("yaml\non: push\njobs:\n  deploy:\n    steps: []\n") \o FENCE

FlowResponses ==
    {FencedWorkflow,
     Chars("jobs:\n  deploy:\n    name: site"),
     Chars("Sorry, I cannot help with that."),
     Chars("jobs:")}

\* lines an answer of the validation specification is made of
YamlLines ==
    {Chars("jobs:\n"),
     Chars("  deploy:\n"),
     Chars("    steps: []\n"),
     Chars("jobs: deploy\n"),
     Chars("  - deploy\n"),
     Chars("name: 'x\n"),
     Chars("Here you go\n"),
     Chars("  jobs\n"),
     FENCE \o Chars("yaml\n")}

\* the answers whose sanitized candidate is in the subset safe_load covers
YamlResponses ==
    {r \in Concats(YamlLines, MaxLines) : safe_load(Sanitize(r)).exc # "unsupported"}

\* pieces an answer of the sanitizer specification is made of: fences and
\* letters, line shapes (with an identifier of U+00E9 and U+0101, a line
\* boundary and a whitespace character that only Unicode-aware methods
\* know), and the texts the replacements look for
FencePieces == {<<BT>>, FENCE, Chars("yaml"), Chars("\n"), Chars("k: ")}

LinePieces ==
    {Chars("k:"), Chars("- "), Chars("x"), Chars("\tx"), Chars(" x"),
     Chars("\n"), <<"é", "U+0101", ":">>, <<VT>>, <<US>>}

ActionPieces == {UploadOld, DownloadOld, PagesOld, Chars("s/upload-artifact@v3")}

TextResponses ==
    Concats(FencePieces, MaxPieces) \cup Concats(LinePieces, MaxPieces)
        \cup Concats(ActionPieces, MaxPieces)

AgentRun == \E r \in FlowResponses : Receive(r)

AgentRunYaml == \E r \in YamlResponses : Receive(r)

AgentRunText == \E r \in TextResponses : Receive(r)

(***************************************************************************)
(* Specifications.                                                         *)
(***************************************************************************)
\* a repository state the script can be started on
RepoState(g, h, hs, t, r) ==
    /\ git_dir = g
    /\ head = h
    /\ heads = hs
    /\ tip = [b \in Refs |-> IF b \in t THEN SiteTree ELSE EmptyTree]
    /\ remotes = r
    /\ remote_main = IF "origin" \in r THEN <<SiteTree>> ELSE <<>>

FreshLocals ==
    /\ response = <<>>
    /\ workflow_text = <<>>
    /\ clean_lines = <<>>
    /\ parsed_yaml = NotLoaded

\* the script is started: on a directory without a repository, or on a
\* repository on main, on another branch (with or without a main branch), or
\* on a detached HEAD; the working tree is the one HEAD has
Init ==
    /\ pc = "start"
    /\ runs = 1
    /\ api_key \in {NoKey, "", "sk-test"}
    /\ effects = <<>>
    /\ FreshLocals
    /\ \/ RepoState(FALSE, "master", {}, {}, {}) /\ work \in {EmptyTree, SiteTree}
          /\ index = EmptyTree
       \/ \E r \in {{}, {"origin"}} :
              RepoState(TRUE, "main", {"main"}, {"main"}, r) /\ work = SiteTree
              /\ index = SiteTree
       \/ RepoState(TRUE, "dev", {"dev"}, {"dev"}, {}) /\ work = SiteTree
          /\ index = SiteTree
       \/ RepoState(TRUE, "dev", {"dev", "main"}, {"main"}, {"origin"})
          /\ work = EmptyTree /\ index = EmptyTree
       \/ \E hs \in {{}, {"main"}} :
              RepoState(TRUE, "detached", hs, hs \cup {"detached"}, {})
              /\ work = SiteTree /\ index = SiteTree

Next ==
    \/ CheckApiKey
    \/ EnsureIndex
    \/ OpenRepo
    \/ EnsureMain
    \/ AgentRun
    \/ StripFences
    \/ FixVersions
    \/ KeepValidLines
    \/ Rejoin
    \/ Validate
    \/ Save
    \/ CommitDecision
    \/ StageAll
    \/ Commit
    \/ EnsureRemote
    \/ Push
    \/ Restart

Spec == Init /\ [][Next]_vars

\* main() is entered on a clean repository that is on main and has origin
InitMain ==
    /\ pc = "agent"
    /\ runs = 1
    /\ api_key = "sk-test"
    /\ effects = <<"Repo">>
    /\ FreshLocals
    /\ RepoState(TRUE, "main", {"main"}, {"main"}, {"origin"})
    /\ work = SiteTree
    /\ index = SiteTree

\* the validation step on answers made of YamlLines: lines 85-123
NextValidate ==
    \/ AgentRunYaml
    \/ StripFences
    \/ FixVersions
    \/ KeepValidLines
    \/ Rejoin
    \/ Validate
    \/ Save

SpecValidate == InitMain /\ [][NextValidate]_vars

\* the sanitizer on answers made of the pieces: lines 85-105
NextSanitize ==
    \/ AgentRunText
    \/ StripFences
    \/ FixVersions
    \/ KeepValidLines
    \/ Rejoin

SpecSanitize == InitMain /\ [][NextSanitize]_vars


(***************************************************************************)
(* The claims.                                                             *)
(***************************************************************************)
Written == work[WORKFLOW_FILE]

\* the parsed document is a mapping whose `jobs` value is a mapping that has
\* the key `deploy`
HasJobsDeploy(v) ==
    /\ v.t = "dict"
    /\ \E i \in 1..Len(v.items) :
           /\ v.items[i].k.t = "str" /\ v.items[i].k.s = JOBS
           /\ \A j \in (i + 1)..Len(v.items) :
                  ~(v.items[j].k.t = "str" /\ v.items[j].k.s = JOBS)
           /\ v.items[i].v.t = "dict"
           /\ \E d \in 1..Len(v.items[i].v.items) :
                  /\ v.items[i].v.items[d].k.t = "str"
                  /\ v.items[i].v.items[d].k.s = DEPLOY

\* C1: when yaml.safe_load raises a YAML error on the sanitized text, main()
\* goes on to write deploy.yml, and what it writes is FALLBACK_WORKFLOW
\* exactly.
C1_SyntaxErrorWritesFallback ==
    parsed_yaml.exc = "YAMLError" =>
        /\ pc \in {"save", "dirty"}
        /\ workflow_text = FALLBACK_WORKFLOW
        /\ pc = "dirty" => Written = <<FALLBACK_WORKFLOW>>

C1_Witness ==
    /\ pc = "dirty"
    /\ parsed_yaml.exc = "YAMLError"
    /\ Contains(response, Chars("name: 'x"))
    /\ Contains(response, Chars("deploy:"))
    /\ Written = <<FALLBACK_WORKFLOW>>

\* C2 (as claimed): every candidate that parses but is not a mapping whose
\* `jobs` value is a mapping containing `deploy` ends with FALLBACK_WORKFLOW
\* written to deploy.yml.
C2_OnlyJobsDeployMappingAccepted ==
    (pc = "dirty" /\ parsed_yaml.exc = "none" /\ ~HasJobsDeploy(parsed_yaml.val))
        => Written = <<FALLBACK_WORKFLOW>>

\* C3: a candidate that parses as a mapping containing jobs.deploy is written
\* to deploy.yml as it left the line filter, and main() does not raise.
C3_AcceptedCandidateWrittenUnchanged ==
    (parsed_yaml.exc = "none" /\ HasJobsDeploy(parsed_yaml.val)) =>
        /\ pc \in {"save", "dirty"}
        /\ workflow_text = JoinLines(clean_lines)
        /\ pc = "dirty" => Written = <<JoinLines(clean_lines)>>

C3_Witness ==
    /\ pc = "dirty"
    /\ parsed_yaml.exc = "none"
    /\ HasJobsDeploy(parsed_yaml.val)
    /\ Contains(response, FENCE)
    /\ Written = <<Chars("jobs:\n  deploy:")>>

\* C4 (as claimed): whatever the agent returns, the validation step does not
\* raise.
C4_ValidationNeverRaises == pc # "crashed"

\* C5: without OPENAI_API_KEY (unset, or set to nothing) the script aborts before any side effect: no
\* file is written, no repository is initialised or opened, the agent is not
\* called, nothing is committed or pushed.
C5_NoKeyNoSideEffect ==
    api_key \in {NoKey, ""} =>
        /\ pc \in {"start", "aborted"}
        /\ effects = <<>>
        /\ Written = <<>>

C5_Witness ==
    /\ pc = "aborted"
    /\ api_key = NoKey
    /\ ~git_dir
    /\ work[INDEX_FILE] = <<>>

\* the working tree has staged, unstaged or untracked changes
TreeDirty ==
    \E f \in Files : work[f] # index[f] \/ index[f] # HeadTree[f]

GitOps == {"add", "commit", "create_remote", "push"}

\* C6: after deploy.yml is written, stage-all, commit, remote creation and
\* push happen exactly when the working tree is dirty, in that order, with
\* origin created only when it is absent; a clean tree ends the run.
C6_CommitAndPushIffDirty ==
    [][/\ pc = "dirty" =>
              /\ pc' = IF TreeDirty THEN "add" ELSE "done"
              /\ effects' = effects
       /\ pc = "add" => pc' = "commit" /\ effects' = Append(effects, "add")
       /\ pc = "commit" => pc' = "remote" /\ effects' = Append(effects, "commit")
       /\ pc = "remote" =>
              /\ pc' = "push"
              /\ "origin" \in remotes'
              /\ effects' = IF "origin" \in remotes THEN effects
                            ELSE Append(effects, "create_remote")
       /\ pc = "push" =>
              /\ pc' \in {"done", "crashed"}
              /\ effects' = Append(effects, "push")
       /\ pc \notin {"add", "commit", "remote", "push"} =>
              \/ effects' = effects
              \/ effects' = <<>>
              \/ effects'[Len(effects')] \notin GitOps]_vars

C6_Witness ==
    /\ pc = "done"
    /\ Len(effects) >= 5
    /\ SubSeq(effects, Len(effects) - 4, Len(effects)) =
           <<"write deploy.yml", "add", "commit", "create_remote", "push">>

\* three consecutive backticks somewhere in s
HasFence(s) ==
    \E i \in 1..(Len(s) - 2) : s[i] = BT /\ s[i + 1] = BT /\ s[i + 2] = BT

\* C7: the sanitized text (after fence removal, replacements and line filter)
\* contains no triple-backtick fence marker.
C7_NoFenceInSanitizedText ==
    pc = "validate" => ~HasFence(workflow_text)

C7_Witness ==
    /\ pc = "validate"
    /\ Contains(response, <<BT, BT, BT, BT>>)
    /\ Contains(response, Chars("k: "))
    /\ Contains(workflow_text, <<BT>>)

\* a line without its surrounding whitespace
Body(line) ==
    LET first == LeadingSpaces(line)
        last == Len(line) - TrailingSpaces(line)
    IN  IF first >= last THEN <<>> ELSE SubSeq(line, first + 1, last)

\* blank, or an identifier and a colon at the start, or a dash and a space
\* at the start
NamedShape(body) ==
    \/ body = <<>>
    \/ \E k \in 1..(Len(body) - 1) :
           (\A i \in 1..k : IsWord(body[i])) /\ body[k + 1] = ":"
    \/ (Len(body) >= 3 /\ body[1] = "-" /\ body[2] = " ")

\* the four shapes as the claim words them: the fourth is any leading
\* whitespace character
ClaimedShape(line) ==
    NamedShape(Body(line)) \/ (line # <<>> /\ IsSpace(line[1]))

\* the four shapes as the code tests them: the fourth is a leading space
TestedShape(line) ==
    NamedShape(Body(line)) \/ (line # <<>> /\ line[1] = " ")

\* C8 (as claimed): the line filter keeps exactly the lines that are blank,
\* start with an identifier and a colon, start with dash-space, or begin with
\* any whitespace character, so no line of these shapes is dropped.
C8_KeepsLinesOfClaimedShapes ==
    pc = "join" => clean_lines = SelectSeq(SplitLines(workflow_text), ClaimedShape)

\* C8 (amended): the line filter keeps exactly the lines that are blank, or
\* that, surrounding whitespace ignored, start with an identifier and a colon
\* or with dash-space, or that begin with a space character; a line that
\* begins with a tab and has none of the first three shapes is dropped.
C8_KeepsLinesOfTestedShapes ==
    pc = "join" => clean_lines = SelectSeq(SplitLines(workflow_text), TestedShape)

C8_Witness ==
    /\ pc = "join"
    /\ clean_lines = <<Chars("k:")>>
    /\ SplitLines(workflow_text) = <<Chars("k:"), Chars("\tx")>>

\* the three replacements applied in the order o, a permutation of 1..3
ApplyIn(o, text) ==
    LET F(n, t) == CASE n = 1 -> FixUpload(t)
                     [] n = 2 -> FixDownload(t)
                     [] n = 3 -> FixPages(t)
    IN  F(o[3], F(o[2], F(o[1], text)))

Orders == {o \in [1..3 -> 1..3] : \A i, j \in 1..3 : i # j => o[i] # o[j]}

\* the text the replacements are applied to
Fenceless == CleanFences(response)

\* an occurrence of `actions-gh-pages/action` runs into an occurrence of
\* `actions/upload-artifact@v3` or `actions/download-artifact@v3`
PagesOverlapsArtifact(text) ==
    \/ Contains(text, PagesOld \o Chars("s/upload-artifact@v3"))
    \/ Contains(text, PagesOld \o Chars("s/download-artifact@v3"))

\* C9 (as claimed): applying the three replacements in any of the six orders
\* yields the text the code produces.
C9_ReplacementsOrderIndependent ==
    pc = "filter" => \A o \in Orders : ApplyIn(o, Fenceless) = workflow_text

\* C9 (amended): the two artifact replacements commute on every text, and all
\* six orders yield the text the code produces on every text in which no
\* `actions-gh-pages/action` is directly followed by `s/upload-artifact@v3` or
\* `s/download-artifact@v3`.
C9_OrderIndependentUnlessOverlap ==
    pc = "filter" =>
        /\ FixDownload(FixUpload(Fenceless)) = FixUpload(FixDownload(Fenceless))
        /\ ~PagesOverlapsArtifact(Fenceless) =>
               \A o \in Orders : ApplyIn(o, Fenceless) = workflow_text

C9_Witness ==
    /\ pc = "filter"
    /\ ~PagesOverlapsArtifact(Fenceless)
    /\ Contains(Fenceless, PagesOld)
    /\ Contains(Fenceless, UploadOld)
    /\ Contains(Fenceless, DownloadOld)
    /\ Contains(workflow_text, PagesNew \o UploadNew)

\* C10: a run pushes only after it has itself committed, and origin's main
\* changes only in such a run; a run that finds the working tree clean ends
\* without a push, also when an earlier run left a commit unpushed.
C10_PushOnlyAfterOwnCommit ==
    [][/\ (effects' # effects /\ effects' # <<>> /\ effects'[Len(effects')] = "push")
              => \E i \in 1..Len(effects) : effects[i] = "commit"
       /\ remote_main' # remote_main
              => \E i \in 1..Len(effects) : effects[i] = "commit"
       /\ (pc = "dirty" /\ ~TreeDirty) => pc' = "done"]_vars

C10_Witness ==
    /\ runs = 2
    /\ pc = "done"
    /\ effects[Len(effects)] = "write deploy.yml"
    /\ "origin" \in remotes
    /\ remote_main # <<tip["main"]>>
    /\ work = tip["main"]


=============================================================================
